---- MODULE Spec2Model ----
(***************************************************************************)
(* Model of src-tauri/src/lib.rs: the desktop shell that probes port 1420, *)
(* spawns the Bun server when nothing listens there, waits for it to       *)
(* accept connections, opens the window and kills the child on teardown.   *)
(*                                                                         *)
(* Option<T> is modelled as a sequence of length 0 (None) or 1 (Some(v)).  *)
(* Paths are strings; format!("{}/x", d) is string concatenation.          *)
(* Environment variables hold valid Unicode, so env::var(..) is Err        *)
(* exactly when the variable is unset.                                     *)
(***************************************************************************)
EXTENDS Integers, Sequences, FiniteSets, TLC

VARIABLES
    pc,                     \* position of run()
    env,                    \* process environment: name -> Option<String>
    fs,                     \* set of paths that exist on the filesystem
    listener,               \* who accepts connections on 127.0.0.1:1420
    childState,             \* the spawned process: absent/running/exited/reaped
    server_already_running, \* local of run(), line 78 (Option<bool>)
    launch,                 \* (project_dir, bun_path, data_dir, cmd env), lines 87-134
    child,                  \* Option<Child>: local of run(), line 136
    server_child,           \* Option<Child>: line 80, moved into ServerProcess.0
    state,                  \* the managed Mutex<ServerProcess>: none/live/dropped
    elapsed,                \* start.elapsed() of wait_for_server, in ms
    ready,                  \* return value of wait_for_server (Option<bool>)
    panic_msg,              \* Option<panic payload>
    window_events,          \* has on_window_event been called
    log                     \* observable effects of the run, in order

vars == <<pc, env, fs, listener, childState, server_already_running, launch,
          child, server_child, state, elapsed, ready, panic_msg, window_events, log>>

-----------------------------------------------------------------------------
(* Option *)

None == <<>>

Some(v) == <<v>>

is_ok(o) == o # None

unwrap_or_else(o, d) == IF o = None THEN d ELSE o[1]

-----------------------------------------------------------------------------
(* Bounds of the model *)

\* number of launches of the application over the same filesystem
MaxRuns == 2

\* sleep may overshoot: thread::sleep returns after 1..1+MaxOversleep intervals
MaxOversleep == 1

\* at most this many of the bun candidate files exist initially (run() model)
MaxBunFiles == 1

-----------------------------------------------------------------------------
(* Program constants *)

TimeoutSecs == 15

SleepMillis == 200

DefaultHome == "/home/rcollins"

FlatpakProjectDir == "/app/share/portfolio_60"

FlatpakBun == "/app/bin/bun"

BundledConfig == "/app/share/portfolio_60/src/shared/config.json"

DataDirVar == "PORTFOLIO60_DATA_DIR"

\* Duration::from_secs(timeout_secs), in milliseconds
from_secs(s) == s * 1000

-----------------------------------------------------------------------------
(* Inputs *)

HomeValues == {None, Some("/home/u")}

BunInstallValues == {None, Some("/opt/bun")}

ProjectDirValues == {None, Some("/srv/p60")}

FlatpakIdValues == {None, Some("org.example.Portfolio60")}

EnvValues ==
    { [HOME |-> h, BUN_INSTALL |-> b, PORTFOLIO60_DIR |-> p, FLATPAK_ID |-> f] :
        h \in HomeValues, b \in BunInstallValues,
        p \in ProjectDirValues, f \in FlatpakIdValues }

\* every place a bun binary may be installed in the modelled machines
BunFiles == { "/opt/bun/bin/bun", "/home/u/.bun/bin/bun",
              "/home/rcollins/.bun/bin/bun", "/usr/local/bin/bun", "/usr/bin/bun" }

OsErrors == {"ENOENT", "EACCES"}

-----------------------------------------------------------------------------
(* Pure functions *)

home_of(e) == unwrap_or_else(e.HOME, DefaultHome)

data_of(e) == home_of(e) \o "/.config/portfolio_60"

data_config_of(e) == data_of(e) \o "/config.json"

exists(path, files) == path \in files

\* mutation of candidates: the system-wide locations are tried first
candidates_system_first(e) ==
    << "/usr/local/bin/bun",
       "/usr/bin/bun",
       IF is_ok(e.BUN_INSTALL) THEN e.BUN_INSTALL[1] \o "/bin/bun" ELSE "",
       home_of(e) \o "/.bun/bin/bun" >>

candidates(e) ==
    << IF is_ok(e.BUN_INSTALL) THEN e.BUN_INSTALL[1] \o "/bin/bun" ELSE "",
       home_of(e) \o "/.bun/bin/bun",
       "/usr/local/bin/bun",
       "/usr/bin/bun" >>

RECURSIVE first_existing(_, _, _)
first_existing(cs, i, files) ==
    IF i > Len(cs) THEN "bun"
    ELSE IF cs[i] # "" /\ exists(cs[i], files) THEN cs[i]
    ELSE first_existing(cs, i + 1, files)

find_bun(e, files) == first_existing(candidates(e), 1, files)

connect(l) == l # "none"

\* mutation of select_paths: PORTFOLIO60_DIR overrides the Flatpak source root
select_paths_override_first(e, files) ==
    IF is_ok(e.FLATPAK_ID)
    THEN [project_dir |-> unwrap_or_else(e.PORTFOLIO60_DIR, FlatpakProjectDir),
          bun_path |-> FlatpakBun,
          data_dir |-> Some(data_of(e)),
          find_bun_calls |-> 0]
    ELSE [project_dir |-> unwrap_or_else(e.PORTFOLIO60_DIR,
                                         home_of(e) \o "/code/portfolio_60"),
          bun_path |-> find_bun(e, files),
          data_dir |-> Some(data_of(e)),
          find_bun_calls |-> 1]

\* mutation of select_paths: only the Flatpak launch has a data directory
select_paths_flatpak_data_only(e, files) ==
    IF is_ok(e.FLATPAK_ID)
    THEN [project_dir |-> FlatpakProjectDir,
          bun_path |-> FlatpakBun,
          data_dir |-> Some(data_of(e)),
          find_bun_calls |-> 0]
    ELSE [project_dir |-> unwrap_or_else(e.PORTFOLIO60_DIR,
                                         home_of(e) \o "/code/portfolio_60"),
          bun_path |-> find_bun(e, files),
          data_dir |-> None,
          find_bun_calls |-> 1]

\* run(), lines 87-123: the (project_dir, bun_path, data_dir) triple
select_paths(e, files) ==
    IF is_ok(e.FLATPAK_ID)
    THEN [project_dir |-> FlatpakProjectDir,
          bun_path |-> FlatpakBun,
          data_dir |-> Some(data_of(e)),
          find_bun_calls |-> 0]
    ELSE [project_dir |-> unwrap_or_else(e.PORTFOLIO60_DIR,
                                         home_of(e) \o "/code/portfolio_60"),
          bun_path |-> find_bun(e, files),
          data_dir |-> Some(data_of(e)),
          find_bun_calls |-> 1]

\* mutation of should_copy: the destination is not looked at
should_copy_always(is_flatpak, data_config, files) ==
    /\ is_flatpak
    /\ exists(BundledConfig, files)

\* run(), lines 98-100: is the bundled config.json copied to the data dir
should_copy(is_flatpak, data_config, files) ==
    /\ is_flatpak
    /\ ~exists(data_config, files)
    /\ exists(BundledConfig, files)

\* mutation of after_fs_steps: a failed create_dir_all aborts startup
after_fs_steps_fatal(mkdir_ok, copy_ok) ==
    IF mkdir_ok THEN "spawn" ELSE "panicked"

\* run(), lines 94, 101, 120: `let _ =` discards both results
after_fs_steps(mkdir_ok, copy_ok) == "spawn"

\* run(), lines 132-134: environment overrides given to the child
child_env(data_dir) ==
    IF data_dir # None THEN { <<DataDirVar, data_dir[1]>> } ELSE {}

\* mutation of loop_continues: the bound is included
loop_continues_inclusive(el, timeout_secs) == el <= from_secs(timeout_secs)

\* wait_for_server, line 58: the loop condition
loop_continues(el, timeout_secs) == el < from_secs(timeout_secs)

\* the spawned process after ServerProcess::drop: killed, and reaped when
\* wait succeeded
after_drop(owned, cs, wait_res) ==
    IF owned = None THEN cs
    ELSE IF wait_res = "ok" THEN "reaped"
    ELSE "exited"

\* mutation of drop: a failed kill ends the teardown
drop_wait_if_killed(owned, kill_res, wait_res) ==
    IF owned # None
    THEN IF kill_res = "ok"
         THEN << <<"kill", owned[1], kill_res>>, <<"wait", owned[1], wait_res>> >>
         ELSE << <<"kill", owned[1], kill_res>> >>
    ELSE << >>

\* mutation of drop: the child is killed but never waited on
drop_kill_only(owned, kill_res, wait_res) ==
    IF owned # None
    THEN << <<"kill", owned[1], kill_res>> >>
    ELSE << >>

\* ServerProcess::drop: the calls made on the owned handle; kill_res and
\* wait_res are the results the OS gives, both discarded
drop(owned, kill_res, wait_res) ==
    IF owned # None
    THEN << <<"kill", owned[1], kill_res>>, <<"wait", owned[1], wait_res>> >>
    ELSE << >>

-----------------------------------------------------------------------------
(* Initial state: process start, before line 78 *)

NoLaunch == [is_flatpak |-> None, project_dir |-> None, bun_path |-> None,
             data_dir |-> None, cmd_env |-> {}, find_bun_calls |-> 0]

InitFs(e, maxBun) ==
    { bun \cup dat \cup bnd :
        bun \in { s \in SUBSET BunFiles : Cardinality(s) <= maxBun },
        dat \in { {}, {data_of(e)}, {data_of(e), data_config_of(e)} },
        bnd \in { {}, {BundledConfig} } }

InitCommon ==
    /\ listener \in {"none", "external"}
    /\ childState = "absent"
    /\ server_already_running = None
    /\ launch = NoLaunch
    /\ child = None
    /\ server_child = None
    /\ state = "none"
    /\ elapsed = 0
    /\ ready = None
    /\ panic_msg = None
    /\ window_events = FALSE
    /\ log = << >>

Init ==
    /\ pc = "start"
    /\ env \in EnvValues
    /\ fs \in InitFs(env, MaxBunFiles)
    /\ InitCommon

-----------------------------------------------------------------------------
(* run(), line 78-83: probe the port *)

\* mutation of Probe: the result of the probe is not used
Probe_always_launch ==
    /\ pc = "start"
    /\ server_already_running' = Some(connect(listener))
    /\ pc' = "launch"
    /\ UNCHANGED <<env, fs, listener, childState, launch, child, server_child,
                   state, elapsed, ready, panic_msg, window_events, log>>

\* mutation of Probe: the process found listening is taken as the child
Probe_adopts_listener ==
    /\ pc = "start"
    /\ server_already_running' = Some(connect(listener))
    /\ IF connect(listener)
       THEN /\ server_child' = Some(listener)
            /\ state' = "live"
            /\ pc' = "constructed"
       ELSE /\ pc' = "launch"
            /\ UNCHANGED <<server_child, state>>
    /\ UNCHANGED <<env, fs, listener, childState, launch, child,
                   elapsed, ready, panic_msg, window_events, log>>

\* mutation of Probe: the Flatpak launch is chosen before the probe is used
Probe_flatpak_first ==
    /\ pc = "start"
    /\ server_already_running' = Some(connect(listener))
    /\ IF connect(listener) /\ ~is_ok(env.FLATPAK_ID)
       THEN /\ server_child' = None
            /\ state' = "live"
            /\ pc' = "constructed"
       ELSE /\ pc' = "launch"
            /\ UNCHANGED <<server_child, state>>
    /\ UNCHANGED <<env, fs, listener, childState, launch, child,
                   elapsed, ready, panic_msg, window_events, log>>

Probe ==
    /\ pc = "start"
    /\ server_already_running' = Some(connect(listener))
    /\ IF connect(listener)
       THEN /\ server_child' = None                  \* line 82
            /\ state' = "live"                       \* line 151
            /\ pc' = "constructed"
       ELSE /\ pc' = "launch"
            /\ UNCHANGED <<server_child, state>>
    /\ UNCHANGED <<env, fs, listener, childState, launch, child,
                   elapsed, ready, panic_msg, window_events, log>>

-----------------------------------------------------------------------------
(* run(), lines 85-134: detect the mode, prepare the data directory, build  *)
(* the command.  mkdir_ok / copy_ok are the outcomes the OS gives to        *)
(* create_dir_all and fs::copy; both results are discarded by the code.     *)

Resolve ==
    /\ pc = "launch"
    /\ \E mkdir_ok \in BOOLEAN, copy_ok \in BOOLEAN :
        LET is_flatpak  == is_ok(env.FLATPAK_ID)
            data        == data_of(env)
            data_config == data_config_of(env)
            sel         == select_paths(env, fs)
            fs1         == IF mkdir_ok THEN fs \cup {data} ELSE fs
            do_copy     == should_copy(is_flatpak, data_config, fs1)
            fs2         == IF do_copy /\ copy_ok THEN fs1 \cup {data_config} ELSE fs1
            status(b)   == IF b THEN "ok" ELSE "err"
        IN  /\ exists(data, fs) => mkdir_ok       \* an existing directory is Ok
            /\ copy_ok => do_copy /\ exists(data, fs1)
            /\ fs' = fs2
            /\ launch' = [is_flatpak |-> Some(is_flatpak),
                          project_dir |-> Some(sel.project_dir),
                          bun_path |-> Some(sel.bun_path),
                          data_dir |-> sel.data_dir,
                          cmd_env |-> child_env(sel.data_dir),
                          find_bun_calls |-> sel.find_bun_calls]
            /\ log' = log \o << <<"create_dir_all", data, status(mkdir_ok)>> >>
                          \o (IF do_copy
                              THEN << <<"copy", data_config, status(copy_ok)>> >>
                              ELSE << >>)
            /\ pc' = after_fs_steps(mkdir_ok, copy_ok)
    /\ UNCHANGED <<env, listener, childState, server_already_running,
                   child, server_child, state, elapsed, ready, panic_msg,
                   window_events>>

(* run(), lines 136-141: cmd.spawn() *)

\* mutation of SpawnOk: the window is opened without waiting for the server
SpawnOk_no_gate ==
    /\ pc = "spawn"
    /\ childState' = "running"
    /\ server_child' = Some("child")
    /\ state' = "live"
    /\ log' = Append(log, <<"spawn", launch.bun_path[1], "ok">>)
    /\ pc' = "constructed"
    /\ UNCHANGED <<env, fs, listener, server_already_running, launch,
                   child, elapsed, ready, panic_msg, window_events>>

SpawnOk ==
    /\ pc = "spawn"
    /\ childState' = "running"
    /\ child' = Some("child")
    /\ log' = Append(log, <<"spawn", launch.bun_path[1], "ok">>)
    /\ elapsed' = 0                       \* wait_for_server: start = now()
    /\ pc' = "gate"
    /\ UNCHANGED <<env, fs, listener, server_already_running, launch,
                   server_child, state, ready, panic_msg, window_events>>

\* mutation of SpawnFail: the error is discarded and startup goes on
SpawnFail_discarded ==
    /\ pc = "spawn"
    /\ log' = Append(log, <<"spawn", launch.bun_path[1], "err">>)
    /\ state' = "live"
    /\ pc' = "constructed"
    /\ UNCHANGED <<env, fs, listener, childState, server_already_running,
                   launch, child, server_child, elapsed, ready, panic_msg,
                   window_events>>

SpawnFail ==
    /\ pc = "spawn"
    /\ \E e \in OsErrors :
        /\ panic_msg' = Some([msg |-> "Failed to start Bun server.",
                              bun_path |-> launch.bun_path[1],
                              project_dir |-> launch.project_dir[1],
                              error |-> e])
        /\ log' = Append(log, <<"spawn", launch.bun_path[1], "err">>)
    /\ pc' = "panicked"
    /\ UNCHANGED <<env, fs, listener, childState, server_already_running,
                   launch, child, server_child, state, elapsed, ready,
                   window_events>>

-----------------------------------------------------------------------------
(* wait_for_server(1420, 15), lines 54-65 *)

GateProbe ==
    /\ pc = "gate"
    /\ loop_continues(elapsed, TimeoutSecs)
    /\ IF connect(listener)
       THEN /\ ready' = Some(TRUE)          \* return true
            /\ elapsed' = 0
            /\ pc' = "gate_ret"
       ELSE /\ pc' = "gate_sleep"
            /\ UNCHANGED <<ready, elapsed>>
    /\ UNCHANGED <<env, fs, listener, childState, server_already_running,
                   launch, child, server_child, state, panic_msg,
                   window_events, log>>

GateSleep ==
    /\ pc = "gate_sleep"
    /\ \E k \in 1 .. (1 + MaxOversleep) : elapsed' = elapsed + k * SleepMillis
    /\ pc' = "gate"
    /\ UNCHANGED <<env, fs, listener, childState, server_already_running,
                   launch, child, server_child, state, ready, panic_msg,
                   window_events, log>>

GateTimeout ==
    /\ pc = "gate"
    /\ ~loop_continues(elapsed, TimeoutSecs)
    /\ ready' = Some(FALSE)                 \* return false
    /\ elapsed' = 0
    /\ pc' = "gate_ret"
    /\ UNCHANGED <<env, fs, listener, childState, server_already_running,
                   launch, child, server_child, state, panic_msg,
                   window_events, log>>

(* run(), lines 144-151: warn on timeout, wrap the child *)

\* mutation of AfterGate: the child is kept only when the server answered
AfterGate_owns_if_ready ==
    /\ pc = "gate_ret"
    /\ log' = log \o << <<"wait_for_server", "1420",
                           IF ready[1] THEN "true" ELSE "false">> >>
                  \o (IF ~ready[1]
                      THEN << <<"eprintln",
                                "Warning: Bun server did not start within 15 seconds",
                                "ok">> >>
                      ELSE << >>)
    /\ server_child' = IF ready[1] THEN child ELSE None
    /\ child' = None
    /\ state' = "live"
    /\ pc' = "constructed"
    /\ UNCHANGED <<env, fs, listener, childState, server_already_running,
                   launch, elapsed, ready, panic_msg, window_events>>

\* mutation of AfterGate: the timeout is not reported
AfterGate_silent ==
    /\ pc = "gate_ret"
    /\ log' = log \o << <<"wait_for_server", "1420",
                           IF ready[1] THEN "true" ELSE "false">> >>
    /\ server_child' = child
    /\ child' = None
    /\ state' = "live"
    /\ pc' = "constructed"
    /\ UNCHANGED <<env, fs, listener, childState, server_already_running,
                   launch, elapsed, ready, panic_msg, window_events>>

AfterGate ==
    /\ pc = "gate_ret"
    /\ log' = log \o << <<"wait_for_server", "1420",
                           IF ready[1] THEN "true" ELSE "false">> >>
                  \o (IF ~ready[1]
                      THEN << <<"eprintln",
                                "Warning: Bun server did not start within 15 seconds",
                                "ok">> >>
                      ELSE << >>)
    /\ server_child' = child                \* Some(child), line 148
    /\ child' = None                        \* moved
    /\ state' = "live"                      \* line 151
    /\ pc' = "constructed"
    /\ UNCHANGED <<env, fs, listener, childState, server_already_running,
                   launch, elapsed, ready, panic_msg, window_events>>

-----------------------------------------------------------------------------
(* run(), lines 153-170: the Tauri application *)

\* dropping the managed state runs ServerProcess::drop.  kill can only
\* fail on a child that has already exited; a successful wait reaps it.
Teardown ==
    /\ \E kill_res \in {"ok", "err"}, wait_res \in {"ok", "err"} :
        /\ server_child = None => kill_res = "ok" /\ wait_res = "ok"
        /\ kill_res = "err" => childState = "exited"
        /\ log' = log \o drop(server_child, kill_res, wait_res)
        /\ childState' = after_drop(server_child, childState, wait_res)
    /\ listener' = IF server_child # None /\ listener = "child"
                   THEN "none" ELSE listener
    /\ state' = "dropped"

\* the builder runs the application: the window is created
Build ==
    /\ pc = "constructed"
    /\ log' = Append(log, <<"window", "main", "created">>)
    /\ pc' = "running"
    /\ UNCHANGED <<env, fs, listener, childState, server_already_running,
                   launch, child, server_child, state, elapsed, ready,
                   panic_msg, window_events>>

\* .run() returns Err: the state is dropped, then expect() panics
BuildFails ==
    /\ pc = "constructed"
    /\ Teardown
    /\ panic_msg' = Some([msg |-> "error while running tauri application",
                          bun_path |-> "", project_dir |-> "",
                          error |-> "tauri"])
    /\ pc' = "panicked"
    /\ UNCHANGED <<env, fs, server_already_running, launch, child,
                   server_child, elapsed, ready, window_events>>

\* on_window_event, lines 165-168: the callback body is empty
WindowEvent ==
    /\ pc = "running"
    /\ ~window_events
    /\ window_events' = TRUE
    /\ UNCHANGED <<pc, env, fs, listener, childState, server_already_running,
                   launch, child, server_child, state, elapsed, ready,
                   panic_msg, log>>

\* the application exits and its state is dropped
AppExit ==
    /\ pc = "running"
    /\ Teardown
    /\ pc' = "exited"
    /\ UNCHANGED <<env, fs, server_already_running, launch, child,
                   server_child, elapsed, ready, panic_msg, window_events>>

-----------------------------------------------------------------------------
(* The rest of the machine: other processes and the child itself *)

Alive == pc \notin {"exited", "panicked"}

ExternalBinds ==
    /\ Alive
    /\ listener = "none"
    /\ listener' = "external"
    /\ UNCHANGED <<pc, env, fs, childState, server_already_running, launch,
                   child, server_child, state, elapsed, ready, panic_msg,
                   window_events, log>>

ExternalStops ==
    /\ Alive
    /\ listener = "external"
    /\ listener' = "none"
    /\ UNCHANGED <<pc, env, fs, childState, server_already_running, launch,
                   child, server_child, state, elapsed, ready, panic_msg,
                   window_events, log>>

ChildBinds ==
    /\ Alive
    /\ childState = "running"
    /\ listener = "none"
    /\ listener' = "child"
    /\ UNCHANGED <<pc, env, fs, childState, server_already_running, launch,
                   child, server_child, state, elapsed, ready, panic_msg,
                   window_events, log>>

ChildExits ==
    /\ Alive
    /\ childState = "running"
    /\ childState' = "exited"
    /\ listener' = IF listener = "child" THEN "none" ELSE listener
    /\ UNCHANGED <<pc, env, fs, server_already_running, launch, child,
                   server_child, state, elapsed, ready, panic_msg,
                   window_events, log>>

-----------------------------------------------------------------------------

Next ==
    \/ Probe
    \/ Resolve
    \/ SpawnOk
    \/ SpawnFail
    \/ GateProbe
    \/ GateSleep
    \/ GateTimeout
    \/ AfterGate
    \/ Build
    \/ BuildFails
    \/ WindowEvent
    \/ AppExit
    \/ ExternalBinds
    \/ ExternalStops
    \/ ChildBinds
    \/ ChildExits

Spec == Init /\ [][Next]_vars

-----------------------------------------------------------------------------
\* the machines on which no bun binary is installed: the gate does not
\* depend on the resolved executable
InitGate ==
    /\ Init
    /\ fs \cap BunFiles = {}

\* the thread of run() keeps running while it polls
FairSpec ==
    /\ InitGate /\ [][Next]_vars
    /\ WF_vars(GateProbe) /\ WF_vars(GateSleep) /\ WF_vars(GateTimeout)

-----------------------------------------------------------------------------
(* Several launches, one after the other, of the Flatpak build over the    *)
(* same filesystem.  Of an earlier run only the filesystem operations are  *)
(* remembered.                                                             *)

InitRuns ==
    /\ Init
    /\ is_ok(env.FLATPAK_ID)
    /\ env.BUN_INSTALL = None
    /\ env.PORTFOLIO60_DIR = None
    /\ fs \cap BunFiles = {}

IsHistory(e) == e[1] \in {"create_dir_all", "copy", "relaunch"}

\* the application has ended and is started again: run() from line 68
Relaunch ==
    /\ pc \in {"exited", "panicked"}
    /\ Cardinality({ i \in DOMAIN log : log[i][1] = "relaunch" }) + 1 < MaxRuns
    /\ pc' = "start"
    /\ listener' \in {"none", "external"}
    /\ childState' = "absent"
    /\ server_already_running' = None
    /\ launch' = NoLaunch
    /\ child' = None
    /\ server_child' = None
    /\ state' = "none"
    /\ elapsed' = 0
    /\ ready' = None
    /\ panic_msg' = None
    /\ window_events' = FALSE
    /\ log' = Append(SelectSeq(log, IsHistory), <<"relaunch", "", "">>)
    /\ UNCHANGED <<env, fs>>

NextRuns ==
    \/ Next
    \/ Relaunch

SpecRuns == InitRuns /\ [][NextRuns]_vars

-----------------------------------------------------------------------------
(* find_bun() on its own: every environment and every set of installed    *)
(* bun binaries                                                            *)

InitFindBun ==
    /\ pc = "find_bun"
    /\ env \in EnvValues
    /\ fs \in SUBSET BunFiles
    /\ InitCommon

FindBunCall ==
    /\ pc = "find_bun"
    /\ launch' = [launch EXCEPT !.bun_path = Some(find_bun(env, fs)),
                                !.find_bun_calls = 1]
    /\ pc' = "find_bun_ret"
    /\ UNCHANGED <<env, fs, listener, childState, server_already_running,
                   child, server_child, state, elapsed, ready, panic_msg,
                   window_events, log>>

NextFindBun == FindBunCall

SpecFindBun == InitFindBun /\ [][NextFindBun]_vars

-----------------------------------------------------------------------------
(* Vocabulary of the properties *)

Ops(op) == { i \in DOMAIN log : log[i][1] = op }

OpsOn(op, arg) == { i \in DOMAIN log : log[i][1] = op /\ log[i][2] = arg }

SpawnedChild == \E i \in Ops("spawn") : log[i][3] = "ok"

SpawnFailed == \E i \in Ops("spawn") : log[i][3] = "err"

InGate == pc \in {"gate", "gate_sleep"}

Owned == { child[i] : i \in DOMAIN child } \cup
         { server_child[i] : i \in DOMAIN server_child }

Handles == Len(child) + Len(server_child)

-----------------------------------------------------------------------------
(* C1: in a run that spawned the backend, once the owning state has been   *)
(* torn down (normal exit or error unwind, whether or not any window       *)
(* callback fired) the child has been sent exactly one kill and exactly    *)
(* one wait, the kill before the wait; no kill or wait is issued twice or  *)
(* before the teardown.                                                    *)

C1_KillThenReapOnce ==
    /\ Cardinality(Ops("kill")) <= 1
    /\ Cardinality(Ops("wait")) <= 1
    /\ state # "dropped" => Ops("kill") = {} /\ Ops("wait") = {}
    /\ (state = "dropped" /\ SpawnedChild) =>
          /\ Cardinality(OpsOn("kill", "child")) = 1
          /\ Cardinality(OpsOn("wait", "child")) = 1
          /\ \A k \in OpsOn("kill", "child"), w \in OpsOn("wait", "child") :
                /\ k < w
                /\ childState = (IF log[w][3] = "ok" THEN "reaped" ELSE "exited")

C1_Witness ==
    /\ pc = "panicked"
    /\ state = "dropped"
    /\ SpawnedChild
    /\ ~window_events
    /\ Ops("kill") # {}

(* C2: when the initial probe of port 1420 succeeded, no process is ever   *)
(* spawned, no handle is ever held, the readiness gate is not run, and the *)
(* teardown issues no kill and no wait.                                    *)

C2_ExternalServerUntouched ==
    server_already_running = Some(TRUE) =>
        /\ Ops("spawn") = {}
        /\ childState = "absent"
        /\ child = None /\ server_child = None
        /\ ~InGate /\ pc # "gate_ret" /\ ready = None
        /\ Ops("wait_for_server") = {}
        /\ Ops("kill") = {} /\ Ops("wait") = {}

C2_Witness ==
    /\ server_already_running = Some(TRUE)
    /\ state = "dropped"
    /\ pc = "exited"

(* C3: at most one child handle is held at any time, a held handle is the  *)
(* process this run spawned, spawn is attempted at most once and only      *)
(* after the initial probe failed.                                         *)

C3_OwnsOnlyOwnChild ==
    /\ Handles <= 1
    /\ Owned # {} => Owned = {"child"} /\ SpawnedChild /\ childState # "absent"
    /\ Cardinality(Ops("spawn")) <= 1
    /\ Ops("spawn") # {} => server_already_running = Some(FALSE)

C3_Witness ==
    /\ state = "live"
    /\ server_child = Some("child")
    /\ listener = "external"

(* C4: when the OS fails to create the process the run panics with a       *)
(* message naming the executable path, the working directory and the OS    *)
(* error; spawn was attempted once, the gate is never entered, no handle   *)
(* is held, the state is never built and no window is created.             *)

C4_SpawnFailureIsFatal ==
    SpawnFailed =>
        /\ pc = "panicked"
        /\ panic_msg # None
        /\ panic_msg[1].msg = "Failed to start Bun server."
        /\ panic_msg[1].bun_path = launch.bun_path[1]
        /\ panic_msg[1].project_dir = launch.project_dir[1]
        /\ panic_msg[1].error \in OsErrors
        /\ Cardinality(Ops("spawn")) = 1
        /\ Ops("wait_for_server") = {} /\ ready = None
        /\ Owned = {} /\ childState = "absent"
        /\ state = "none"
        /\ Ops("window") = {}

C4_Witness ==
    /\ SpawnFailed
    /\ pc = "panicked"
    /\ launch.bun_path = Some("bun")

(* C5: when the gate timed out the run does not fail: one warning is       *)
(* printed, the spawned child stays owned and is killed and reaped at      *)
(* teardown, and the run goes on to build and run the UI.                  *)

C5_TimeoutIsNonFatal ==
    /\ Cardinality(Ops("eprintln")) <= 1
    /\ (ready = Some(FALSE) /\ pc # "gate_ret") =>
          /\ Cardinality(Ops("eprintln")) = 1
          /\ pc \in {"constructed", "running", "exited", "panicked"}
          /\ state = "live" => server_child = Some("child")
          /\ state = "dropped" => OpsOn("kill", "child") # {} /\ OpsOn("wait", "child") # {}
          /\ panic_msg # None => panic_msg[1].error = "tauri"
    /\ ready # Some(FALSE) => Ops("eprintln") = {}

C5_Witness ==
    /\ ready = Some(FALSE)
    /\ pc = "running"
    /\ Ops("window") # {}
    /\ listener = "none"

(* C6: in a run that spawns a child the window is created only after       *)
(* wait_for_server has returned, never while it polls, and the spawn       *)
(* precedes the gate.                                                      *)

C6_WindowAfterGate ==
    /\ (InGate \/ pc = "gate_ret") => SpawnedChild /\ Ops("window") = {}
    /\ SpawnedChild =>
          /\ \A w \in Ops("window") : \E g \in Ops("wait_for_server") : g < w
          /\ \A g \in Ops("wait_for_server") : \E sp \in Ops("spawn") : sp < g
          /\ Ops("window") # {} => ready # None

C6_Witness ==
    /\ SpawnedChild
    /\ Ops("window") # {}
    /\ ready = Some(TRUE)

(* C7: wait_for_server always returns: true as soon as a connection to    *)
(* the port succeeds before the timeout, false once 15000 ms have elapsed; *)
(* after a failed attempt it sleeps at least 200 ms and polls again; it    *)
(* never returns true without a successful connection and has no other     *)
(* exit.                                                                   *)

C7_GateStep ==
    /\ (pc = "gate" /\ pc' # "gate") =>
          \/ /\ elapsed < 15000 /\ listener # "none"
             /\ pc' = "gate_ret" /\ ready' = Some(TRUE)
          \/ /\ elapsed < 15000 /\ listener = "none"
             /\ pc' = "gate_sleep" /\ ready' = None
          \/ /\ elapsed >= 15000
             /\ pc' = "gate_ret" /\ ready' = Some(FALSE)
    /\ (pc = "gate_sleep" /\ pc' # "gate_sleep") =>
          /\ pc' = "gate"
          /\ elapsed' >= elapsed + 200
    /\ (pc = "gate_ret" /\ pc' # "gate_ret") => pc' = "constructed"

C7_GateTerminates ==
    /\ [][C7_GateStep]_vars
    /\ InGate ~> (pc = "gate_ret")

C7_Witness ==
    /\ pc = "gate_ret"
    /\ ready = Some(FALSE)
    /\ listener = "none"

(* C8: the path is decided by (server already running, FLATPAK_ID set),    *)
(* with "already running" first: when the probe succeeded nothing is       *)
(* resolved, created, copied or spawned, whatever FLATPAK_ID is; when it   *)
(* failed the Flatpak launch is taken exactly when FLATPAK_ID is set.      *)

C8_PathTaken ==
    /\ server_already_running = Some(TRUE) =>
          /\ launch = NoLaunch
          /\ Ops("create_dir_all") = {} /\ Ops("copy") = {}
          /\ Ops("spawn") = {}
    /\ (server_already_running = Some(FALSE) /\ pc # "launch") =>
          /\ launch.is_flatpak = Some(env.FLATPAK_ID # None)
          /\ launch.bun_path # None
          /\ launch.find_bun_calls = (IF env.FLATPAK_ID # None THEN 0 ELSE 1)
          /\ Ops("copy") # {} => env.FLATPAK_ID # None

C8_AlreadyRunningWins ==
    /\ []C8_PathTaken
    /\ [][server_already_running' = Some(TRUE) => fs' = fs]_vars

C8_Witness ==
    /\ server_already_running = Some(TRUE)
    /\ env.FLATPAK_ID # None
    /\ BundledConfig \in fs
    /\ data_config_of(env) \notin fs
    /\ pc = "running"

(* C9: once the launch is resolved: with FLATPAK_ID set the executable is  *)
(* /app/bin/bun and the working directory /app/share/portfolio_60,         *)
(* whatever PORTFOLIO60_DIR and BUN_INSTALL are, and find_bun is not       *)
(* called; with FLATPAK_ID unset the working directory is PORTFOLIO60_DIR  *)
(* when set, else <home>/code/portfolio_60, and the executable is what     *)
(* find_bun returns.                                                       *)

C9_LaunchTriple ==
    launch.bun_path # None =>
        IF env.FLATPAK_ID # None
        THEN /\ launch.bun_path = <<"/app/bin/bun">>
             /\ launch.project_dir = <<"/app/share/portfolio_60">>
             /\ launch.find_bun_calls = 0
        ELSE /\ launch.project_dir =
                    (IF env.PORTFOLIO60_DIR # None
                     THEN env.PORTFOLIO60_DIR
                     ELSE IF env.HOME # None
                          THEN << env.HOME[1] \o "/code/portfolio_60" >>
                          ELSE << "/home/rcollins/code/portfolio_60" >>)
             /\ launch.bun_path = << find_bun(env, fs) >>
             /\ launch.find_bun_calls = 1

C9_Witness ==
    /\ env.FLATPAK_ID # None
    /\ env.PORTFOLIO60_DIR # None
    /\ env.BUN_INSTALL # None
    /\ "/opt/bun/bin/bun" \in fs
    /\ launch.bun_path = <<"/app/bin/bun">>
    /\ SpawnedChild

(* C10: find_bun returns the first existing path among                     *)
(* $BUN_INSTALL/bin/bun (when BUN_INSTALL is set), <home>/.bun/bin/bun,    *)
(* /usr/local/bin/bun, /usr/bin/bun, and "bun" when none of them exists.   *)

C10_Expected ==
    LET h == IF env.HOME # None THEN env.HOME[1] ELSE "/home/rcollins"
    IN  IF env.BUN_INSTALL # None /\ (env.BUN_INSTALL[1] \o "/bin/bun") \in fs
        THEN env.BUN_INSTALL[1] \o "/bin/bun"
        ELSE IF (h \o "/.bun/bin/bun") \in fs THEN h \o "/.bun/bin/bun"
        ELSE IF "/usr/local/bin/bun" \in fs THEN "/usr/local/bin/bun"
        ELSE IF "/usr/bin/bun" \in fs THEN "/usr/bin/bun"
        ELSE "bun"

C10_FindBunFirstExisting ==
    pc = "find_bun_ret" => launch.bun_path = << C10_Expected >>

C10_Witness ==
    /\ pc = "find_bun_ret"
    /\ env.BUN_INSTALL # None
    /\ {"/opt/bun/bin/bun", "/usr/local/bin/bun", "/usr/bin/bun"} \subseteq fs
    /\ launch.bun_path = <<"/opt/bun/bin/bun">>

(* C11: over any sequence of Flatpak launches the bundled config.json is   *)
(* copied only by a launch that finds the destination missing and the      *)
(* bundled file present, and then once; a launch that finds the            *)
(* destination present copies nothing and leaves the filesystem as it is;  *)
(* the destination is created by a successful copy only, so at most one    *)
(* copy ever succeeds.                                                     *)

C11_Copies(l) == { i \in DOMAIN l : l[i][1] = "copy" }

C11_CopyStep ==
    LET dst == data_config_of(env)
    IN  /\ Cardinality(C11_Copies(log')) - Cardinality(C11_Copies(log)) =
             (IF /\ pc = "launch" /\ pc' # "launch"
                 /\ env.FLATPAK_ID # None
                 /\ dst \notin fs
                 /\ BundledConfig \in fs
              THEN 1 ELSE 0)
        /\ dst \in fs => fs' = fs
        /\ (dst \notin fs /\ dst \in fs') =>
              /\ Len(log') > 0
              /\ log'[Len(log')] = <<"copy", dst, "ok">>

C11_AtMostOneCopySucceeds ==
    /\ Cardinality({ i \in Ops("copy") : log[i][3] = "ok" }) <= 1
    /\ \A i \in Ops("copy") : log[i][2] = data_config_of(env)
    /\ (\E i \in Ops("copy") : log[i][3] = "ok") => data_config_of(env) \in fs

C11_CopyOnlyWhenMissing ==
    /\ []C11_AtMostOneCopySucceeds
    /\ [][C11_CopyStep]_vars

C11_Witness ==
    /\ Ops("relaunch") # {}
    /\ pc = "spawn"
    /\ Cardinality(Ops("copy")) = 1
    /\ \A i \in Ops("copy"), r \in Ops("relaunch") : i < r /\ log[i][3] = "ok"
    /\ BundledConfig \in fs

(* C12: a failed create_dir_all or a failed copy of config.json is         *)
(* discarded: it prints no warning and raises no panic, the launch is      *)
(* resolved as if it had succeeded, and the run goes on to spawn, to the   *)
(* gate and to the window; a warning is only the gate's timeout, a panic   *)
(* only the spawn failure or the application's error.                      *)

C12_FsFailed ==
    \E i \in Ops("create_dir_all") \cup Ops("copy") : log[i][3] = "err"

C12_FsFailureIsSilent ==
    C12_FsFailed =>
        /\ pc \in {"spawn", "gate", "gate_sleep", "gate_ret", "constructed",
                   "running", "exited", "panicked"}
        /\ pc = "panicked" => panic_msg # None
        /\ panic_msg # None =>
              \/ panic_msg[1].msg = "Failed to start Bun server." /\ SpawnFailed
              \/ panic_msg[1].msg = "error while running tauri application"
        /\ Ops("eprintln") # {} => ready = Some(FALSE)
        /\ launch.bun_path # None /\ launch.project_dir # None
        /\ launch.cmd_env = { <<"PORTFOLIO60_DATA_DIR", data_of(env)>> }
        /\ pc \in {"running", "exited"} => Ops("window") # {}

C12_Witness ==
    /\ \E i \in Ops("create_dir_all") : log[i][3] = "err"
    /\ \E i \in Ops("copy") : log[i][3] = "err"
    /\ pc = "running"
    /\ ready = Some(TRUE)
    /\ Ops("window") # {}
    /\ Ops("eprintln") = {}

(* C13: the statement as claimed: a Flatpak launch spawns the child with   *)
(* PORTFOLIO60_DATA_DIR set to the per-user data directory, a normal       *)
(* launch spawns it without the variable and without creating the data     *)
(* directory.                                                              *)

C13_DataDirOnlyInFlatpak ==
    SpawnedChild =>
        IF env.FLATPAK_ID # None
        THEN launch.cmd_env = { <<"PORTFOLIO60_DATA_DIR", data_of(env)>> }
        ELSE /\ launch.cmd_env = {}
             /\ Ops("create_dir_all") = {}

(* C13, amended: in both modes the launch calls create_dir_all on          *)
(* <home>/.config/portfolio_60 before the spawn and spawns the child with  *)
(* PORTFOLIO60_DATA_DIR set to it; only the copy of config.json is         *)
(* particular to the Flatpak launch.                                       *)

C13_DataDirInBothModes ==
    SpawnedChild =>
        LET h    == IF env.HOME # None THEN env.HOME[1] ELSE "/home/rcollins"
            data == h \o "/.config/portfolio_60"
        IN  /\ launch.data_dir = <<data>>
            /\ launch.cmd_env = { <<"PORTFOLIO60_DATA_DIR", data>> }
            /\ Cardinality(OpsOn("create_dir_all", data)) = 1
            /\ \A m \in OpsOn("create_dir_all", data), sp \in Ops("spawn") : m < sp
            /\ (\E m \in Ops("create_dir_all") : log[m][3] = "ok") => data \in fs
            /\ Ops("copy") # {} => env.FLATPAK_ID # None

C13_Witness ==
    /\ SpawnedChild
    /\ env.FLATPAK_ID = None
    /\ launch.cmd_env # {}
    /\ \E m \in Ops("create_dir_all") : log[m][3] = "ok"
    /\ BundledConfig \in fs
    /\ data_config_of(env) \notin fs

(* C14: ServerProcess::drop goes through both calls whatever they return:  *)
(* every kill in the log, failed or not, is followed at once by a wait on  *)
(* the same child; neither result raises a panic or stops the exit; the    *)
(* managed state is only ever absent, live or dropped, never held locked   *)
(* by another path.                                                        *)

C14_TeardownUnconditional ==
    /\ \A k \in Ops("kill") :
          /\ k + 1 \in Ops("wait")
          /\ log[k + 1][2] = log[k][2]
    /\ (state = "dropped" /\ SpawnedChild) => Ops("kill") # {}
    /\ state = "dropped" =>
          /\ pc \in {"exited", "panicked"}
          /\ pc = "exited" => panic_msg = None
          /\ pc = "panicked" =>
                panic_msg[1].msg = "error while running tauri application"
    /\ state \in {"none", "live", "dropped"}

C14_Witness ==
    /\ state = "dropped"
    /\ pc = "exited"
    /\ \E k \in Ops("kill") :
          /\ log[k] = <<"kill", "child", "err">>
          /\ k + 1 \in Ops("wait")
          /\ log[k + 1] = <<"wait", "child", "ok">>
    /\ childState = "reaped"

(* C15: what the gate returns, and who answered on port 1420, changes      *)
(* nothing of what is owned: from the spawn on the one handle held is the  *)
(* spawned child, with the gate true or false and with the child or        *)
(* another process listening, and the teardown kills and waits on that     *)
(* child and on nothing else.                                              *)

C15_OwnsSpawnedChildOnly ==
    /\ (SpawnedChild /\ (InGate \/ pc = "gate_ret")) =>
          child = <<"child">> /\ server_child = << >>
    /\ (SpawnedChild /\ state = "live") =>
          server_child = <<"child">> /\ child = << >>
    /\ \A i \in Ops("kill") \cup Ops("wait") : log[i][2] = "child"
    /\ (SpawnedChild /\ state = "dropped") =>
          /\ Cardinality(OpsOn("kill", "child")) = 1
          /\ Cardinality(OpsOn("wait", "child")) = 1

C15_Witness ==
    /\ SpawnedChild
    /\ state = "dropped"
    /\ ready = Some(TRUE)
    /\ listener = "external"
    /\ OpsOn("kill", "child") # {}
    /\ OpsOn("wait", "child") # {}

====
